---- MODULE Spec2Model ----
(***************************************************************************)
(* Collision core of the PNS router: ITEM::collideSimple and ITEM::Collide *)
(* of pcbnew/router/pns_item.cpp, over a small board of items.             *)
(*                                                                         *)
(* Geometry is one-dimensional: a shape is a disc [pos, r] on the integer  *)
(* line, the distance of two shapes is the distance of their centres, and  *)
(* the shape layer's Collide( other, clearance ) is                        *)
(*      distance < r1 + r2 + clearance.                                    *)
(* A LINE's shape is its line chain, which carries no width (r = 0).       *)
(* HOLE objects and their operations (Clone, Radius, Pos, SetCenter,        *)
(* SetRadius, Move, MakeCircularHole) act on the holes of the board and on  *)
(* the holes they make.                                                     *)
(***************************************************************************)
EXTENDS Integers, FiniteSets, Sequences, TLC

VARIABLES items, made, node, ctx, call, ncalls, log

vars == <<items, made, node, ctx, call, ncalls, log>>

\* ------------------------------------------------------------------ bounds
\* number of calls made: Collide calls on one search context, HOLE operations
MaxCalls == 1

\* ------------------------------------------------------------- identities
NULL == "NULL"

ItemIds == {"L", "LV", "LVH", "M", "S", "P", "PH", "Z"}

\* the board object an item was made from (ITEM::m_parent); type NONE is nullptr
NoParent ==
    [type |-> "NONE", layer |-> "F_Cu", fp |-> NULL,
     dnaTracks |-> FALSE, dnaVias |-> FALSE, dnaPads |-> FALSE, dnaFootprints |-> FALSE]

BoardItem(t, fp) == [NoParent EXCEPT !.type = t, !.fp = fp]

\* a zone with its four keepout flags and its host footprint
Zone(tr, vi, pa, fo, fp) ==
    [type |-> "PCB_ZONE_T", layer |-> "F_Cu", fp |-> fp,
     dnaTracks |-> tr, dnaVias |-> vi, dnaPads |-> pa, dnaFootprints |-> fo]

\* --------------------------------------------------------- item accessors
Shape(its, i) == its[i].shape

Hole(its, i) == its[i].hole

Parent(its, i) == its[i].parent

ParentPadVia(its, i) == its[i].parentPadVia

IsFreePad(its, i) == its[i].freePad

\* LINE::Width
Width(its, i) == its[i].width

\* LINE::EndsWithVia
EndsWithVia(its, i) == its[i].via # NULL

\* LINE::Via
Via(its, i) == its[i].via

\* LAYER_RANGE::Overlaps
Overlaps(a, b) == a.start <= b.end /\ b.start <= a.end

\* IsMultilayer of a range that always spans several layers
IsMultilayerAlways(a) == TRUE

\* LAYER_RANGE::IsMultilayer
IsMultilayer(a) == a.start # a.end

\* ITEM::Layer
Layer(its, i) == its[i].layers.start

\* ROUTER_IFACE::IsFlashedOnLayer
IsFlashedOnLayer(its, i, l) == l \in its[i].flashed

\* ------------------------------------------------------------ shape layer
Abs(x) == IF x < 0 THEN -x ELSE x

Dist(a, b) == Abs(a.pos - b.pos)

\* SHAPE::Collide( other, clearance ): overlap iff distance < r1 + r2 + clearance
ShapeCollide(a, b, clearance) == Dist(a, b) < a.r + b.r + clearance

\* the contact point SHAPE::Collide reports on the slow path
ContactPoint(a, b) == (a.pos + b.pos) \div 2

\* ------------------------------------------------------------------- node
\* NODE::GetClearance
GetClearance(nd, a, b) == nd.clearance[<<a, b>>]

\* RULE_RESOLVER::ClearanceEpsilon
ClearanceEpsilon(nd) == nd.eps

\* GetCollisionQueryScope of a node that never leaves the default scope
GetCollisionQueryScopeAllRules(nd) == "CQS_ALL_RULES"

\* NODE::GetCollisionQueryScope
GetCollisionQueryScope(nd) == nd.scope

\* QueryEdgeExclusions on a node with no edge exclusion
QueryEdgeExclusionsNone(nd, pos) == FALSE

\* NODE::QueryEdgeExclusions
QueryEdgeExclusions(nd, pos) == pos \in nd.edgeExcl

\* RULE_RESOLVER::IsInNetTie
IsInNetTie(its, i) == its[i].inNetTie

\* RULE_RESOLVER::IsNetTieExclusion
IsNetTieExclusion(nd, head, pos, i) == pos \in nd.tieExcl

\* ------------------------------------------------------------- obstacles
\* an OBSTACLE with head and item the other way round
OBSTACLESwapped(head, item, clearance) ==
    [head |-> item, item |-> head, clearance |-> clearance]

\* an OBSTACLE that forgets its head
OBSTACLEItemOnly(head, item, clearance) ==
    [head |-> NULL, item |-> item, clearance |-> clearance]

OBSTACLE(head, item, clearance) ==
    [head |-> head, item |-> item, clearance |-> clearance]

\* Insert without the comparison of (head, item)
InsertAlways(obs, o) == obs \cup {o}

\* std::set<OBSTACLE>::insert: an obstacle with the same (head, item) is kept
Insert(obs, o) ==
    IF \E x \in obs : x.head = o.head /\ x.item = o.item THEN obs ELSE obs \cup {o}

\* --------------------------------------------------------------- keepout
\* the checkKeepout lambda of collideSimple
checkKeepout(aKeepout, aOther) ==
    IF aKeepout.dnaTracks /\ aOther.type \in {"PCB_ARC_T", "PCB_TRACE_T"} THEN TRUE
    ELSE IF aKeepout.dnaVias /\ aOther.type = "PCB_VIA_T" THEN TRUE
    ELSE IF aKeepout.dnaPads /\ aOther.type = "PCB_PAD_T" THEN TRUE
    ELSE IF aKeepout.dnaFootprints /\ aOther.type = "PCB_PAD_T"
         THEN aKeepout.fp = NULL \/ aKeepout.fp # aOther.fp
    ELSE FALSE

\* dynamic_cast<ZONE*>( Parent() ) is non-null
IsZone(p) == p.type = "PCB_ZONE_T"

\* ---------------------------------------------------------- collideSimple
\* lineWidth without the halving
lineWidthFull(its, i) == IF its[i].kind = "LINE" THEN Width(its, i) ELSE 0

\* half of a LINE's width, 0 for every other kind
lineWidth(its, i) == IF its[i].kind = "LINE" THEN Width(its, i) \div 2 ELSE 0

\* shapeThreshold without the epsilon
shapeThresholdNoEpsilon(clearance, lineWidthH, lineWidthI, clearanceEpsilon) ==
    clearance + lineWidthH + lineWidthI

\* the threshold of the shape-vs-shape test
shapeThreshold(clearance, lineWidthH, lineWidthI, clearanceEpsilon) ==
    clearance + lineWidthH + lineWidthI - clearanceEpsilon

\* sameNetFilter taking net 0 for no net
sameNetFilterPositive(its, this, aHead, cx) ==
    /\ cx.present
    /\ cx.differentNetsOnly
    /\ its[this].net = its[aHead].net
    /\ its[this].net > 0
    /\ its[aHead].net > 0

\* same nets? no collision!
sameNetFilter(its, this, aHead, cx) ==
    /\ cx.present
    /\ cx.differentNetsOnly
    /\ its[this].net = its[aHead].net
    /\ its[this].net >= 0
    /\ its[aHead].net >= 0

\* a pad of a free pin has no net until it has been used
freePadFilter(its, this, aHead, cx) ==
    /\ cx.present
    /\ cx.differentNetsOnly
    /\ (IsFreePad(its, this) \/ IsFreePad(its, aHead))

\* the two keepout tests, applied also to an item made from no board object
keepoutFilterParentless(its, this, aHead) ==
    LET pI == Parent(its, this)
        pH == Parent(its, aHead)
    IN  \/ IsZone(pI) /\ (pH.type = "NONE" \/ ~checkKeepout(pI, pH))
        \/ IsZone(pH) /\ (pI.type = "NONE" \/ ~checkKeepout(pH, pI))

\* keepoutFilter leaving when the keepout does disallow the other item
keepoutFilterInverted(its, this, aHead) ==
    LET pI == Parent(its, this)
        pH == Parent(its, aHead)
    IN  \/ IsZone(pI) /\ pH.type # "NONE" /\ checkKeepout(pI, pH)
        \/ IsZone(pH) /\ pI.type # "NONE" /\ checkKeepout(pH, pI)

\* the two keepout tests
keepoutFilter(its, this, aHead) ==
    LET pI == Parent(its, this)
        pH == Parent(its, aHead)
    IN  \/ IsZone(pI) /\ pH.type # "NONE" /\ ~checkKeepout(pI, pH)
        \/ IsZone(pH) /\ pI.type # "NONE" /\ ~checkKeepout(pH, pI)

\* we cannot be self-colliding
selfFilter(this, aHead) == aHead = this

\* layerFilter comparing one end of the ranges only
layerFilterOneSided(its, this, aHead) ==
    ~(its[this].layers.start <= its[aHead].layers.end)

\* check if we are not on completely different layers first
layerFilter(its, this, aHead) == ~Overlaps(its[this].layers, its[aHead].layers)

\* the hole of this is tested against the shape of the head
holeICheck(its, this, aHead) ==
    LET holeI == Hole(its, this)
    IN  holeI # NULL /\ ParentPadVia(its, holeI) # aHead /\ holeI # aHead

\* the hole of the head is tested against the shape of this
holeHCheck(its, this, aHead) ==
    LET holeH == Hole(its, aHead)
    IN  holeH # NULL /\ ParentPadVia(its, holeH) # this /\ holeH # this

\* ownHoleFilter without the tests of an item that is the other's hole
ownHoleFilterParentOnly(its, this, aHead) ==
    LET holeI == Hole(its, this)
        holeH == Hole(its, aHead)
    IN  \/ holeI # NULL /\ aHead = ParentPadVia(its, holeI)
        \/ holeH # NULL /\ this = ParentPadVia(its, holeH)

\* prevent bogus collisions between the item and its own hole
ownHoleFilter(its, this, aHead) ==
    LET holeI == Hole(its, this)
        holeH == Hole(its, aHead)
    IN  \/ holeI # NULL /\ aHead = ParentPadVia(its, holeI)
        \/ holeH # NULL /\ this = ParentPadVia(its, holeH)
        \/ holeH # NULL /\ this = holeH
        \/ holeI # NULL /\ aHead = holeI

\* the value returned at the two non-flashed exits
notFlashedResult(collisionsFound) == FALSE

\* the clearance of the test of the head's hole against this
holeHClearance(nd, this, aHead, holeH) == GetClearance(nd, this, holeH)

\* the pair that clearance is resolved for
holeHQuery(this, aHead, holeH) == <<this, holeH>>

\* the element of a set of one element
The(S) == CHOOSE y \in S : TRUE

\* the result of one collideSimple call: the value returned, the obstacle set
\* it leaves in the context, and what it did on the way
Outcome(ret, obs, exit, hits, queries, tested, thr) ==
    [ret |-> ret, obs |-> obs, exit |-> exit, hits |-> hits,
     queries |-> queries, tested |-> tested, thr |-> thr, slow |-> FALSE]

\* the three hole sub-checks: which of them ran and which of them hit; without
\* a context the first hit ends the call, so the later ones do not run
holeChecks(its, nd, cx, this, aHead) ==
    LET shapeI == Shape(its, this)
        holeI == Hole(its, this)
        shapeH == Shape(its, aHead)
        holeH == Hole(its, aHead)
        clearanceEpsilon == ClearanceEpsilon(nd)
        thisNotFlashed ==
            nd.iface /\ ~IsFlashedOnLayer(its, this, Layer(its, aHead))
        otherNotFlashed ==
            nd.iface /\ ~IsFlashedOnLayer(its, aHead, Layer(its, this))
        holeScope ==
            \/ GetCollisionQueryScope(nd) = "CQS_ALL_RULES"
            \/ thisNotFlashed
            \/ otherNotFlashed
        \* hole of this against the shape of the head
        run1 == holeScope /\ holeICheck(its, this, aHead)
        hit1 == run1 /\ ShapeCollide(Shape(its, holeI), shapeH,
                            GetClearance(nd, this, holeI) + lineWidth(its, aHead)
                                - clearanceEpsilon)
        \* hole of the head against the shape of this
        run2 == holeScope /\ (cx.present \/ ~hit1) /\ holeHCheck(its, this, aHead)
        hit2 == run2 /\ ShapeCollide(Shape(its, holeH), shapeI,
                            holeHClearance(nd, this, aHead, holeH) + lineWidth(its, this)
                                - clearanceEpsilon)
        \* hole against hole
        run3 == holeScope /\ (cx.present \/ ~(hit1 \/ hit2))
                /\ holeI # NULL /\ holeH # NULL /\ holeI # holeH
        hit3 == run3 /\ ShapeCollide(Shape(its, holeI), Shape(its, holeH),
                            GetClearance(nd, holeI, holeH) - clearanceEpsilon)
    IN  [thisNotFlashed |-> thisNotFlashed, otherNotFlashed |-> otherNotFlashed,
         run1 |-> run1, hit1 |-> hit1, run2 |-> run2, hit2 |-> hit2,
         run3 |-> run3, hit3 |-> hit3]

\* collideSimple from the hole sub-checks h on: the obstacles of the hole hits,
\* the exits, the clearance and the shape-vs-shape test
collideShapes(its, nd, cx, obs0, this, aHead, h) ==
    LET shapeI == Shape(its, this)
        holeI == Hole(its, this)
        shapeH == Shape(its, aHead)
        holeH == Hole(its, aHead)
        o1 == OBSTACLE(aHead, holeI, GetClearance(nd, this, holeI))
        o2 == OBSTACLE(holeH, this, holeHClearance(nd, this, aHead, holeH))
        o3 == OBSTACLE(holeH, holeI, GetClearance(nd, holeI, holeH))
        obs1 == IF h.hit1 /\ cx.present THEN Insert(obs0, o1) ELSE obs0
        obs2 == IF h.hit2 /\ cx.present THEN Insert(obs1, o2) ELSE obs1
        obs3 == IF h.hit3 /\ cx.present THEN Insert(obs2, o3) ELSE obs2
        holeHits ==
            (IF h.hit1 THEN {o1} ELSE {})
            \cup (IF h.hit2 THEN {o2} ELSE {})
            \cup (IF h.hit3 THEN {o3} ELSE {})
        holeQueries ==
            (IF h.run1 THEN {<<this, holeI>>} ELSE {})
            \cup (IF h.run2 THEN {holeHQuery(this, aHead, holeH)} ELSE {})
            \cup (IF h.run3 THEN {<<holeI, holeH>>} ELSE {})
        collisionsFound == cx.present /\ (h.hit1 \/ h.hit2 \/ h.hit3)
        override == cx.present /\ cx.overrideClearance >= 0
        clearance == IF override THEN cx.overrideClearance
                     ELSE GetClearance(nd, this, aHead)
        allQueries == IF override THEN holeQueries
                      ELSE holeQueries \cup {<<this, aHead>>}
        checkCastellation ==
            Parent(its, this).type # "NONE" /\ Parent(its, this).layer = "Edge_Cuts"
        checkNetTie == IsInNetTie(its, this)
        thr == shapeThreshold(clearance, lineWidth(its, aHead), lineWidth(its, this),
                              ClearanceEpsilon(nd))
        pos == ContactPoint(shapeH, shapeI)
        shapeObs == OBSTACLE(aHead, this, clearance)
        \* the slow method and the fast method: one shape test at thr; only the
        \* slow method looks at the contact point
        slowOrFast ==
            IF ~ShapeCollide(shapeH, shapeI, thr)
              THEN Outcome(collisionsFound, obs3, "clear", holeHits, allQueries, TRUE, thr)
            ELSE IF checkCastellation /\ QueryEdgeExclusions(nd, pos)
              THEN Outcome(FALSE, obs3, "edgeExclusion", holeHits, allQueries, TRUE, thr)
            ELSE IF checkNetTie /\ IsNetTieExclusion(nd, aHead, pos, this)
              THEN Outcome(FALSE, obs3, "netTieExclusion", holeHits, allQueries, TRUE, thr)
            ELSE IF cx.present
              THEN Outcome(TRUE, Insert(obs3, shapeObs), "shapeHit",
                           holeHits \cup {shapeObs}, allQueries, TRUE, thr)
            ELSE Outcome(TRUE, obs0, "shapeHit", {shapeObs}, allQueries, TRUE, thr)
    IN  IF ~cx.present /\ (h.hit1 \/ h.hit2 \/ h.hit3)
          THEN Outcome(TRUE, obs0, "holeHit", holeHits, holeQueries, FALSE, 0)
        ELSE IF ~IsMultilayer(its[aHead].layers) /\ h.thisNotFlashed
          THEN Outcome(notFlashedResult(collisionsFound), obs3, "thisNotFlashed",
                       holeHits, holeQueries, FALSE, 0)
        ELSE IF ~IsMultilayer(its[this].layers) /\ h.otherNotFlashed
          THEN Outcome(notFlashedResult(collisionsFound), obs3, "otherNotFlashed",
                       holeHits, holeQueries, FALSE, 0)
        ELSE IF ownHoleFilter(its, this, aHead)
          THEN Outcome(FALSE, obs3, "ownHole", holeHits, allQueries, FALSE, 0)
        ELSE IF clearance < 0
          THEN Outcome(collisionsFound, obs3, "negative", holeHits, allQueries, FALSE, 0)
        ELSE [slowOrFast EXCEPT !.slow = checkCastellation \/ checkNetTie]

\* ITEM::collideSimple( aHead, aNode, aCtx ) on the obstacle set obs0
collideSimple(its, nd, cx, obs0, this, aHead) ==
    IF selfFilter(this, aHead)
      THEN Outcome(FALSE, obs0, "self", {}, {}, FALSE, 0)
    ELSE IF sameNetFilter(its, this, aHead, cx)
      THEN Outcome(FALSE, obs0, "sameNet", {}, {}, FALSE, 0)
    ELSE IF freePadFilter(its, this, aHead, cx)
      THEN Outcome(FALSE, obs0, "freePad", {}, {}, FALSE, 0)
    ELSE IF layerFilter(its, this, aHead)
      THEN Outcome(FALSE, obs0, "layers", {}, {}, FALSE, 0)
    ELSE IF keepoutFilter(its, this, aHead)
      THEN Outcome(FALSE, obs0, "keepout", {}, {}, FALSE, 0)
    ELSE The({collideShapes(its, nd, cx, obs0, this, aHead, h) :
                h \in {holeChecks(its, nd, cx, this, aHead)}})

\* ---------------------------------------------------------------- Collide
\* one collideSimple sub-test of a Collide call, as the call record keeps it
Sub(this, aHead, pre, r) ==
    [this |-> this, head |-> aHead, pre |-> pre, ret |-> r.ret, obs |-> r.obs,
     exit |-> r.exit, hits |-> r.hits, queries |-> r.queries,
     tested |-> r.tested, thr |-> r.thr, slow |-> r.slow]

\* the sub-test this.collideSimple( aHead ) on the obstacle set obs0
subTest(its, nd, cx, obs0, this, aHead) ==
    The({Sub(this, aHead, obs0, r) :
            r \in {collideSimple(its, nd, cx, obs0, this, aHead)}})

\* collideResult on a context that is emptied when the call starts
collideResultFresh(ret, subs) ==
    [ret |-> ret, obs |-> subs[Len(subs)].obs \ subs[1].pre, subs |-> subs]

\* the result of Collide after the sub-tests subs, the last of which decides
collideResult(ret, subs) ==
    [ret |-> ret, obs |-> subs[Len(subs)].obs, subs |-> subs]

\* the special case of the head line: the via at the end of aOther against this
collideViaOfOther(its, nd, cx, this, aOther, subs) ==
    IF its[aOther].kind = "LINE" /\ EndsWithVia(its, aOther)
    THEN The({collideResult(s3.ret, Append(subs, s3)) :
                s3 \in {subTest(its, nd, cx, subs[Len(subs)].obs, Via(its, aOther), this)}})
    ELSE collideResult(FALSE, subs)

\* the special case of this line: the via at the end of this against aOther
collideViaOfThis(its, nd, cx, this, aOther, subs) ==
    IF its[this].kind = "LINE" /\ EndsWithVia(its, this)
    THEN The({IF s2.ret THEN collideResult(TRUE, Append(subs, s2))
              ELSE collideViaOfOther(its, nd, cx, this, aOther, Append(subs, s2)) :
                s2 \in {subTest(its, nd, cx, subs[Len(subs)].obs, Via(its, this), aOther)}})
    ELSE collideViaOfOther(its, nd, cx, this, aOther, subs)

\* ITEM::Collide: the value returned, the obstacle set left in the context and
\* the collideSimple sub-tests that ran, in order
Collide(its, nd, cx, obs0, this, aOther) ==
    The({IF s1.ret THEN collideResult(TRUE, <<s1>>)
         ELSE collideViaOfThis(its, nd, cx, this, aOther, <<s1>>) :
            s1 \in {subTest(its, nd, cx, obs0, this, aOther)}})

\* ------------------------------------------------------------------ board
Layers == {0, 1, 2}

Range(a, b) == [start |-> a, end |-> b]

\* the parameters of a board: a LINE L that may end with the via LV (hole LVH),
\* a LINE M, a SEGMENT S, a via or pad P with the hole PH, and a zone item Z; the rule
\* resolver's values; the options of the search context
Default ==
    [lw |-> 0, lvia |-> TRUE, lnet |-> 1, llay |-> 0, lpos |-> 0,
     lvlay |-> Range(0, 2), lvr |-> 3, lvhr |-> 1,
     mw |-> 0, mnet |-> 4, mlay |-> 0, mpos |-> 0, mtie |-> FALSE,
     snet |-> 2, slay |-> 0, spos |-> 1, sr |-> 2, stype |-> "PCB_TRACE_T",
     sboard |-> "F_Cu", stie |-> FALSE, edge |-> {}, tie |-> {},
     pkind |-> "VIA", pnet |-> 3, play |-> Range(0, 2),
     ppos |-> 2, pr |-> 3, phr |-> 1, phshape |-> "SH_CIRCLE",
     phrank |-> -1, phmarker |-> 0, phvirtual |-> FALSE, phboard |-> FALSE,
     pfree |-> FALSE, pfp |-> "FP1",
     pflashed |-> Layers,
     znet |-> 0, zlay |-> 0, zpos |-> 1, zr |-> 2,
     zone |-> Zone(TRUE, TRUE, TRUE, TRUE, NULL),
     cl |-> 0, hcl |-> 0, hhcl |-> 0, hd |-> 0, eps |-> 0,
     scope |-> "CQS_ALL_RULES", iface |-> TRUE,
     present |-> TRUE, dno |-> FALSE, oc |-> -1]

Item(kind, net, layers, pos, r) ==
    [kind |-> kind, net |-> net, layers |-> layers,
     shape |-> [type |-> "SH_CIRCLE", pos |-> pos, r |-> r, at |-> NULL],
     width |-> 0, parent |-> NoParent, hole |-> NULL, parentPadVia |-> NULL,
     via |-> NULL, freePad |-> FALSE, inNetTie |-> FALSE,
     flashed |-> Layers, rank |-> -1, marker |-> 0, isVirtual |-> FALSE]

\* the items of the board with parameters p; the via a LINE ends with has the
\* net of the line, a hole has the net and the layers of its pad or via; each
\* item owns its shape, an object of its own
Board(p) ==
    [i \in ItemIds |-> [(
        CASE i = "L" ->
               [Item("LINE", p.lnet, Range(p.llay, p.llay), p.lpos, 0)
                   EXCEPT !.width = p.lw,
                          !.via = IF p.lvia THEN "LV" ELSE NULL]
          [] i = "LV" ->
               [Item("VIA", p.lnet, p.lvlay, p.lpos, p.lvr) EXCEPT !.hole = "LVH"]
          [] i = "LVH" ->
               [Item("HOLE", p.lnet, p.lvlay, p.lpos, p.lvhr)
                   EXCEPT !.parentPadVia = "LV"]
          [] i = "M" ->
               [Item("LINE", p.mnet, Range(p.mlay, p.mlay), p.mpos, 0)
                   EXCEPT !.width = p.mw, !.inNetTie = p.mtie]
          [] i = "S" ->
               [Item("SEGMENT", p.snet, Range(p.slay, p.slay), p.spos, p.sr)
                   EXCEPT !.width = 2 * p.sr,
                          !.inNetTie = p.stie,
                          !.parent = [BoardItem(p.stype, NULL)
                                         EXCEPT !.layer = p.sboard]]
          [] i = "P" ->
               [Item(p.pkind, p.pnet, p.play, p.ppos, p.pr)
                   EXCEPT !.hole = "PH",
                          !.freePad = p.pfree,
                          !.flashed = p.pflashed,
                          !.parent = BoardItem(IF p.pkind = "VIA" THEN "PCB_VIA_T"
                                               ELSE "PCB_PAD_T", p.pfp)]
          [] i = "PH" ->
               [Item("HOLE", p.pnet, p.play, p.ppos, p.phr)
                   EXCEPT !.parentPadVia = "P", !.freePad = p.pfree,
                          !.shape.type = p.phshape,
                          !.rank = p.phrank, !.marker = p.phmarker,
                          !.isVirtual = p.phvirtual,
                          !.parent = IF p.phboard THEN BoardItem("PCB_PAD_T", p.pfp)
                                     ELSE NoParent]
          [] i = "Z" ->
               [Item("SOLID", p.znet, Range(p.zlay, p.zlay), p.zpos, p.zr)
                   EXCEPT !.parent = p.zone]) EXCEPT !.shape.at = i]]

\* the rule resolver's clearance for the pair (a, b): cl between two items,
\* hcl between an item and its own hole, hcl + hd between an item and another
\* item's hole, hhcl between two holes
Clearance(its, p, a, b) ==
    LET ha == its[a].kind = "HOLE"
        hb == its[b].kind = "HOLE"
    IN  IF ha /\ hb THEN p.hhcl
        ELSE IF hb THEN (IF its[b].parentPadVia = a THEN p.hcl ELSE p.hcl + p.hd)
        ELSE IF ha THEN (IF its[a].parentPadVia = b THEN p.hcl ELSE p.hcl + p.hd)
        ELSE p.cl

\* the node and its rule resolver
Node(p) ==
    [clearance |-> [q \in ItemIds \X ItemIds |-> Clearance(Board(p), p, q[1], q[2])],
     eps |-> p.eps, scope |-> p.scope, iface |-> p.iface,
     edgeExcl |-> p.edge, tieExcl |-> p.tie]

\* a fresh search context (or none)
Context(p) ==
    [present |-> p.present, differentNetsOnly |-> p.dno,
     overrideClearance |-> p.oc, obstacles |-> {}]

\* ------------------------------------------------------------------- HOLE
\* the holes that exist: those of the board and those that Clone and
\* MakeCircularHole have made
HoleIds(its, md) == {i \in ItemIds : its[i].kind = "HOLE"} \cup DOMAIN md

\* the HOLE object h
HoleAt(its, md, h) == IF h \in DOMAIN md THEN md[h] ELSE its[h]

\* new HOLE( aParentPadVia, shape ): no net, every layer
HOLE(aParentPadVia, shape) ==
    [Item("HOLE", -1, Range(0, 2), shape.pos, shape.r)
        EXCEPT !.shape = shape, !.parentPadVia = aParentPadVia]

\* the id of the hole a factory makes, and the address of its shape
NewId == "H1"

\* SHAPE::Clone: an equal shape, a new object
ShapeClone(shape) == [shape EXCEPT !.at = NewId]

\* Clone that drops the pad or via
CloneParentless(hole) ==
    [HOLE(NULL, ShapeClone(hole.shape))
        EXCEPT !.net = hole.net, !.layers = hole.layers,
               !.rank = hole.rank, !.marker = hole.marker,
               !.parent = hole.parent, !.isVirtual = hole.isVirtual]

\* Clone that hands the shape of the original to the new hole
CloneSharedShape(hole) ==
    [HOLE(hole.parentPadVia, hole.shape)
        EXCEPT !.net = hole.net, !.layers = hole.layers,
               !.rank = hole.rank, !.marker = hole.marker,
               !.parent = hole.parent, !.isVirtual = hole.isVirtual]

\* HOLE::Clone: a hole of the same pad or via with a clone of the shape, the
\* net, the layers, the rank, the marker, the board object and the virtual
\* flag of this hole
Clone(hole) ==
    [HOLE(hole.parentPadVia, ShapeClone(hole.shape))
        EXCEPT !.net = hole.net, !.layers = hole.layers,
               !.rank = hole.rank, !.marker = hole.marker,
               !.parent = hole.parent, !.isVirtual = hole.isVirtual]

\* IsCircular that takes every shape for a circle
IsCircularAlways(hole) == TRUE

\* HOLE::IsCircular
IsCircular(hole) == hole.shape.type = "SH_CIRCLE"

\* HOLE::Radius, past its assertion
Radius(hole) == hole.shape.r

\* Pos that answers the centre of the shape
PosOfShape(hole) == hole.shape.pos

\* HOLE::Pos: VECTOR2I( 0, 0 ), the origin of the line
Pos(hole) == 0

\* HOLE::SetCenter, past its assertion
SetCenter(hole, aCenter) == [hole EXCEPT !.shape.pos = aCenter]

\* HOLE::SetRadius, past its assertion
SetRadius(hole, aRadius) == [hole EXCEPT !.shape.r = aRadius]

\* HOLE::Move: SHAPE::Move of the shape, whatever its type
Move(hole, delta) == [hole EXCEPT !.shape.pos = @ + delta]

\* HOLE::MakeCircularHole: a circle at pos, no pad or via, layers F_Cu..B_Cu
MakeCircularHole(pos, radius) ==
    [HOLE(NULL, [type |-> "SH_CIRCLE", pos |-> pos, r |-> radius, at |-> NewId])
        EXCEPT !.layers = Range(0, 2)]

NoCall == [op |-> "none", this |-> NULL, other |-> NULL, ret |-> FALSE,
           crashed |-> FALSE, pre |-> {}, subs |-> <<>>, arg |-> 0, val |-> 0]

\* ---------------------------------------------------------- PNS_LOG_FILE
\* the items a log file can hold, by address: two equal segments, a wider
\* segment, two vias that differ in their drill
LogItemIds == {"s1", "s2", "s3", "v1", "v2"}

LogItem(i) ==
    [kind |-> IF i \in {"v1", "v2"} THEN "VIA_T" ELSE "SEGMENT_T",
     net |-> 1,
     layers |-> IF i \in {"v1", "v2"} THEN Range(0, 2) ELSE Range(0, 0),
     diameter |-> IF i \in {"v1", "v2"} THEN 6 ELSE 0,
     drill |-> IF i = "v1" THEN 3 ELSE IF i = "v2" THEN 4 ELSE 0,
     pos |-> IF i \in {"v1", "v2"} THEN 2 ELSE 0,
     seg |-> IF i \in {"v1", "v2"} THEN <<0, 0>> ELSE <<0, 5>>,
     width |-> IF i \in {"s1", "s2"} THEN 2 ELSE IF i = "s3" THEN 4 ELSE 0]

\* the order of the pointers in a std::set<PNS::ITEM*>
Addr(i) ==
    CASE i = "s1" -> 1 [] i = "s2" -> 2 [] i = "s3" -> 3 [] i = "v1" -> 4
      [] i = "v2" -> 5

\* the element of the non-empty set S at the lowest address
First(S) == CHOOSE x \in S : \A y \in S : Addr(x) <= Addr(y)

\* comparePnsItems
comparePnsItems(a, b) ==
    IF a.kind # b.kind THEN FALSE
    ELSE IF a.net # b.net THEN FALSE
    ELSE IF a.layers # b.layers THEN FALSE
    ELSE IF a.kind = "VIA_T"
      THEN a.diameter = b.diameter /\ a.drill = b.drill /\ a.pos = b.pos
    ELSE IF a.kind = "SEGMENT_T"
      THEN a.seg = b.seg /\ a.width = b.width
    ELSE TRUE

\* the inner loop of deduplicate over the members of rv past the address
\* last: a member equal to item ends the loop, any other has item inserted
RECURSIVE scan(_, _, _)
scan(rv, item, last) ==
    LET ahead == {x \in rv : Addr(x) > last}
    IN  IF ahead = {} THEN rv
        ELSE IF comparePnsItems(LogItem(First(ahead)), LogItem(item)) THEN rv
        ELSE scan(rv \cup {item}, item, Addr(First(ahead)))

\* the outer loop of deduplicate from the k-th item on
RECURSIVE deduplicateFrom(_, _, _)
deduplicateFrom(its, k, rv) ==
    IF k > Len(its) THEN rv
    ELSE deduplicateFrom(its, k + 1, scan(rv, its[k], 0))

\* deduplicate( items )
deduplicate(its) == deduplicateFrom(its, 1, {})

\* the loops of Compare over the added items: each item erases the first
\* member of chk that it compares equal to
RECURSIVE eraseMatched(_, _)
eraseMatched(added, chk) ==
    IF added = {} THEN chk
    ELSE LET item == First(added)
             eq == {c \in chk : comparePnsItems(LogItem(item), LogItem(c))}
         IN  eraseMatched(added \ {item},
                          IF eq = {} THEN chk ELSE chk \ {First(eq)})

\* COMMIT_STATE::Compare( aOther ), on a copy of aOther
Compare(this, aOther) ==
    IF ~(this.removedIds \subseteq aOther.removedIds) THEN FALSE
    ELSE LET checkRemoved == aOther.removedIds \ this.removedIds
             addedItems == deduplicate(this.addedItems)
             chkAddedItems == deduplicate(aOther.addedItems)
         IN  eraseMatched(addedItems, chkAddedItems) = {} /\ checkRemoved = {}

\* a COMMIT_STATE
COMMIT_STATE(removedIds, addedItems) ==
    [removedIds |-> removedIds, addedItems |-> addedItems]

\* two empty commit states, nothing called on them
NoLog ==
    [this |-> COMMIT_STATE({}, <<>>), other |-> COMMIT_STATE({}, <<>>),
     op |-> "none", ret |-> FALSE, set |-> {}]

InitWith(P) ==
    \E p \in P :
        /\ items = Board(p)
        /\ made = <<>>
        /\ node = Node(p)
        /\ ctx = Context(p)
        /\ call = NoCall
        /\ ncalls = 0
        /\ log = NoLog

\* ---------------------------------------------------------------- actions
\* the outcomes of collideSimple's unguarded aCtx->obstacles.size(): with a
\* context it is a plain read; without one it reads through a null pointer,
\* and the call either dies there or goes on
DerefOutcomes(cx) == IF cx.present THEN {"run"} ELSE {"run", "crash"}

\* a caller asks items[this].Collide( items[other], node, ctx )
DoCollide(this, other) ==
    /\ ncalls < MaxCalls
    /\ \E how \in DerefOutcomes(ctx),
          r \in {Collide(items, node, ctx, ctx.obstacles, this, other)} :
             IF how = "crash"
             THEN /\ ctx' = ctx
                  /\ call' = [op |-> "Collide", this |-> this, other |-> other,
                              ret |-> FALSE, crashed |-> TRUE,
                              pre |-> ctx.obstacles, subs |-> <<>>,
                              arg |-> 0, val |-> 0]
             ELSE /\ ctx' = [ctx EXCEPT !.obstacles = r.obs]
                  /\ call' = [op |-> "Collide", this |-> this, other |-> other,
                              ret |-> r.ret, crashed |-> FALSE,
                              pre |-> ctx.obstacles, subs |-> r.subs,
                              arg |-> 0, val |-> 0]
    /\ ncalls' = ncalls + 1
    /\ UNCHANGED <<items, made, node, log>>

\* the centres, radii and displacements callers pass to the HOLE operations
Centres == {5}

Radii == {2}

Deltas == {1}

\* the record of a HOLE operation on h with argument arg: whether its
\* assertion failed, the value it returned, the hole it made
HoleCall(op, h, arg, crashed, val, new) ==
    [NoCall EXCEPT !.op = op, !.this = h, !.arg = arg, !.crashed = crashed,
                   !.val = val, !.other = new]

\* the object x after a write to the shape of hole: the shape is one object,
\* seen by every item that points to it
Written(x, hole) ==
    IF x.shape.at = hole.shape.at THEN [x EXCEPT !.shape = hole.shape] ELSE x

\* the hole h becomes hole
Store(h, hole) ==
    /\ made' = [g \in DOMAIN made |-> Written(made[g], hole)]
    /\ items' = [i \in DOMAIN items |-> Written(items[i], hole)]

\* a caller asks h.Radius()
DoRadius(h) ==
    /\ ncalls < MaxCalls
    /\ h \in HoleIds(items, made)
    /\ \E hole \in {HoleAt(items, made, h)} :
          call' = IF IsCircular(hole)
                  THEN HoleCall("Radius", h, 0, FALSE, Radius(hole), NULL)
                  ELSE HoleCall("Radius", h, 0, TRUE, 0, NULL)
    /\ ncalls' = ncalls + 1
    /\ UNCHANGED <<items, made, node, ctx, log>>

\* a caller asks h.Pos()
DoPos(h) ==
    /\ ncalls < MaxCalls
    /\ h \in HoleIds(items, made)
    /\ call' = HoleCall("Pos", h, 0, FALSE, Pos(HoleAt(items, made, h)), NULL)
    /\ ncalls' = ncalls + 1
    /\ UNCHANGED <<items, made, node, ctx, log>>

\* a caller asks h.SetCenter( c )
DoSetCenter(h, c) ==
    /\ ncalls < MaxCalls
    /\ h \in HoleIds(items, made)
    /\ \E hole \in {HoleAt(items, made, h)} :
          IF IsCircular(hole)
          THEN /\ Store(h, SetCenter(hole, c))
               /\ call' = HoleCall("SetCenter", h, c, FALSE, 0, NULL)
          ELSE /\ UNCHANGED <<items, made>>
               /\ call' = HoleCall("SetCenter", h, c, TRUE, 0, NULL)
    /\ ncalls' = ncalls + 1
    /\ UNCHANGED <<node, ctx, log>>

\* a caller asks h.SetRadius( r )
DoSetRadius(h, r) ==
    /\ ncalls < MaxCalls
    /\ h \in HoleIds(items, made)
    /\ \E hole \in {HoleAt(items, made, h)} :
          IF IsCircular(hole)
          THEN /\ Store(h, SetRadius(hole, r))
               /\ call' = HoleCall("SetRadius", h, r, FALSE, 0, NULL)
          ELSE /\ UNCHANGED <<items, made>>
               /\ call' = HoleCall("SetRadius", h, r, TRUE, 0, NULL)
    /\ ncalls' = ncalls + 1
    /\ UNCHANGED <<node, ctx, log>>

\* a caller asks h.Move( d )
DoMove(h, d) ==
    /\ ncalls < MaxCalls
    /\ h \in HoleIds(items, made)
    /\ Store(h, Move(HoleAt(items, made, h), d))
    /\ call' = HoleCall("Move", h, d, FALSE, 0, NULL)
    /\ ncalls' = ncalls + 1
    /\ UNCHANGED <<node, ctx, log>>

\* a caller asks h.Clone()
DoClone(h) ==
    /\ ncalls < MaxCalls
    /\ h \in HoleIds(items, made)
    /\ NewId \notin DOMAIN made
    /\ made' = made @@ (NewId :> Clone(HoleAt(items, made, h)))
    /\ call' = HoleCall("Clone", h, 0, FALSE, 0, NewId)
    /\ ncalls' = ncalls + 1
    /\ UNCHANGED <<items, node, ctx, log>>

\* a caller asks HOLE::MakeCircularHole( c, r )
DoMakeCircularHole(c, r) ==
    /\ ncalls < MaxCalls
    /\ NewId \notin DOMAIN made
    /\ made' = made @@ (NewId :> MakeCircularHole(c, r))
    /\ call' = HoleCall("MakeCircularHole", NULL, c, FALSE, 0, NewId)
    /\ ncalls' = ncalls + 1
    /\ UNCHANGED <<items, node, ctx, log>>

\* the ids a caller may hold
Refs == ItemIds \cup {NewId}

Next ==
    \/ \E this \in ItemIds, other \in ItemIds : DoCollide(this, other)
    \/ \E h \in Refs : DoRadius(h)
    \/ \E h \in Refs : DoPos(h)
    \/ \E h \in Refs, c \in Centres : DoSetCenter(h, c)
    \/ \E h \in Refs, r \in Radii : DoSetRadius(h, r)
    \/ \E h \in Refs, d \in Deltas : DoMove(h, d)
    \/ \E h \in Refs : DoClone(h)
    \/ \E c \in Centres, r \in Radii : DoMakeCircularHole(c, r)

\* ---------------------------------------------------------- specifications
\* nets, free pads and the differentNetsOnly option
NetParams ==
    {[Default EXCEPT !.lnet = ln, !.snet = sn, !.pnet = pn, !.dno = d, !.lvia = v,
                     !.pfree = f, !.pkind = IF f THEN "SOLID" ELSE "VIA"]
        : ln \in {0, 1}, sn \in {-1, 0, 1}, pn \in {-1, 0, 1}, d \in BOOLEAN,
          f \in BOOLEAN, v \in BOOLEAN}

Init == InitWith(NetParams)

Spec == Init /\ [][Next]_vars

\* holes: the query scope, the flashing of P and the size of its hole
HoleParams ==
    {[Default EXCEPT !.scope = sc, !.iface = i, !.pflashed = fl, !.play = pl,
                     !.phr = hr, !.pkind = k]
        : sc \in {"CQS_ALL_RULES", "CQS_IGNORE_HOLE_CLEARANCE"}, i \in BOOLEAN,
          fl \in {{}, {0}, {1, 2}, Layers}, pl \in {Range(0, 2), Range(0, 0)},
          hr \in {1, 4}, k \in {"VIA", "SOLID"}}

InitHole == InitWith(HoleParams)

SpecHole == InitHole /\ [][Next]_vars

\* layers; the via a line ends with spans the layer of the line
LayerParams ==
    {[Default EXCEPT !.llay = lv[1], !.lvlay = lv[2], !.slay = sl, !.play = pl,
                     !.lvia = v]
        : lv \in {q \in Layers \X {Range(0, 2), Range(0, 0), Range(1, 2)} :
                    q[2].start <= q[1] /\ q[1] <= q[2].end},
          sl \in Layers,
          pl \in {Range(0, 2), Range(0, 0), Range(1, 1), Range(2, 2)},
          v \in BOOLEAN}

InitLayer == InitWith(LayerParams)

SpecLayer == InitLayer /\ [][Next]_vars

\* keepouts: the four flags of the zone of Z, its footprint, and the board
\* objects of S and P
KeepoutParams ==
    {[Default EXCEPT !.zone = Zone(tr, vi, pa, fo, q[3]), !.stype = st,
                     !.pkind = q[1], !.pfp = q[2]]
        : tr \in BOOLEAN, vi \in BOOLEAN, pa \in BOOLEAN, fo \in BOOLEAN,
          st \in {"PCB_TRACE_T", "PCB_ARC_T", "NONE"},
          q \in {<<"VIA", "FP1", NULL>>, <<"SOLID", "FP1", NULL>>,
                 <<"SOLID", "FP1", "FP1">>, <<"SOLID", "FP2", "FP1">>}}

InitKeepout == InitWith(KeepoutParams)

SpecKeepout == InitKeepout /\ [][Next]_vars

\* geometry: S and P of radius 5 at the distances around 10, the lines L and M
\* of several widths, M in a net-tie, the clearance and the clearance epsilon
GeoParams ==
    {[Default EXCEPT !.sr = 5, !.pr = 5, !.ppos = 0, !.spos = sp, !.lpos = 4,
                     !.mpos = 6, !.mtie = TRUE, !.eps = e, !.cl = c, !.lw = w[1], !.mw = w[2]]
        : sp \in {7, 8, 9, 11, 12}, e \in {0, 1, 2}, c \in {0, 1},
          w \in {<<0, 0>>, <<1, 3>>, <<5, 3>>, <<4, 0>>}}

InitGeo == InitWith(GeoParams)

SpecGeo == InitGeo /\ [][Next]_vars

\* first-hit mode: calls with and without a search context, over the query
\* scope, the position of S and the size of the hole of P
FirstHitParams ==
    {[Default EXCEPT !.present = pr, !.scope = sc, !.spos = sp, !.phr = hr,
                     !.lvia = v]
        : pr \in BOOLEAN, sc \in {"CQS_ALL_RULES", "CQS_IGNORE_HOLE_CLEARANCE"},
          sp \in {1, 4, 8}, hr \in {1, 4}, v \in BOOLEAN}

InitFirstHit == InitWith(FirstHitParams)

SpecFirstHit == InitFirstHit /\ [][Next]_vars

\* a context that an earlier Collide call has already written to: the
\* clearance of a hole against an item that is not its pad or via (hcl + hd),
\* the override clearance, the earlier call; and calls with no context
RepeatParams ==
    {[Default EXCEPT !.hd = d, !.oc = o, !.present = pr]
        : d \in {0, 1}, o \in {-1, 1}, pr \in BOOLEAN}

PriorCalls == {<<"PH", "S">>, <<"P", "S">>, <<"S", "P">>, <<"L", "S">>, <<"S", "S">>}

\* the search context of p after the call c[1].Collide( c[2] ) on it
ContextAfter(p, c) ==
    [Context(p) EXCEPT
        !.obstacles = Collide(Board(p), Node(p), Context(p), {}, c[1], c[2]).obs]

InitRepeat ==
    \E p \in RepeatParams, c \in PriorCalls :
        /\ items = Board(p)
        /\ made = <<>>
        /\ node = Node(p)
        /\ ctx = ContextAfter(p, c)
        /\ call = NoCall
        /\ ncalls = 0
        /\ log = NoLog

SpecRepeat == InitRepeat /\ [][Next]_vars

\* negative clearances: the resolver's values for item/item, item/hole and
\* hole/hole pairs, the size of the hole of P, the position of S and the scope
NegativeParams ==
    {[Default EXCEPT !.cl = c, !.hcl = hc, !.hhcl = hh, !.phr = hr, !.spos = sp,
                     !.scope = sc]
        : c \in {-1, 0}, hc \in {-2, -1, 0}, hh \in {-1, 0}, hr \in {1, 4},
          sp \in {1, 8}, sc \in {"CQS_ALL_RULES", "CQS_IGNORE_HOLE_CLEARANCE"}}

InitNegative == InitWith(NegativeParams)

SpecNegative == InitNegative /\ [][Next]_vars

\* the override clearance of the context against the values of the resolver:
\* item/item and item/hole clearances, the position of S, the size of the hole
\* of P and the scope; the line L is 4 wide, the line M is in a net-tie
OverrideParams ==
    {[Default EXCEPT !.oc = o, !.cl = c, !.hcl = hc, !.spos = sp, !.phr = hr,
                     !.scope = sc, !.lw = 4, !.mtie = TRUE]
        : o \in {-1, 0, 2}, c \in {0, 3}, hc \in {0, 3}, sp \in {1, 6, 8},
          hr \in {1, 4}, sc \in {"CQS_ALL_RULES", "CQS_IGNORE_HOLE_CLEARANCE"}}

InitOverride == InitWith(OverrideParams)

SpecOverride == InitOverride /\ [][Next]_vars

\* hole shapes: the hole of P a circle or an oval (a segment), its radius and
\* its position
ShapeParams ==
    {[Default EXCEPT !.phshape = t, !.phr = hr, !.ppos = pp, !.pr = hr + 2]
        : t \in {"SH_CIRCLE", "SH_SEGMENT"}, hr \in {1, 4}, pp \in {0, 2}}

InitShape == InitWith(ShapeParams)

SpecShape == InitShape /\ [][Next]_vars

\* the slow path: the board object of S on a copper layer or on Edge_Cuts, S
\* and M in a net-tie or not, the edge exclusions and the net-tie exclusions
\* of the node at the contact points or nowhere, S over P or away from it
SlowParams ==
    {[Default EXCEPT !.sboard = sb, !.stie = st, !.mtie = mt, !.edge = ed,
                     !.tie = ti, !.spos = sp]
        : sb \in {"F_Cu", "Edge_Cuts"}, st \in BOOLEAN, mt \in BOOLEAN,
          ed \in {{}, {0, 1}}, ti \in {{}, {0, 1}}, sp \in {1, 8}}

InitSlow == InitWith(SlowParams)

SpecSlow == InitSlow /\ [][Next]_vars

\* the two directions of a pair: the rule resolver's clearance between an item
\* and another item's hole apart from that of an item and its own hole or
\* not, S in touch with the hole of P, over it or away from it, the width of L
MirrorParams ==
    {[Default EXCEPT !.hd = d, !.spos = sp, !.phr = hr, !.scope = sc,
                     !.present = pr, !.lw = w]
        : d \in {0, 1}, sp \in {1, 5, 8}, hr \in {1, 4},
          sc \in {"CQS_ALL_RULES", "CQS_IGNORE_HOLE_CLEARANCE"},
          pr \in BOOLEAN, w \in {0, 4}}

InitMirror == InitWith(MirrorParams)

SpecMirror == InitMirror /\ [][Next]_vars

\* the log file's commit states: lists of up to two added items and sets of
\* removed ids, on the default board
AddedLists ==
    {<<>>} \cup {<<a>> : a \in LogItemIds}
           \cup {<<a, b>> : a \in LogItemIds, b \in LogItemIds}

RemovedSets == SUBSET {"k1"}

InitLog ==
    /\ items = Board(Default)
    /\ made = <<>>
    /\ node = Node(Default)
    /\ ctx = Context(Default)
    /\ call = NoCall
    /\ ncalls = 0
    /\ \E ta \in AddedLists, oa \in AddedLists, tr \in RemovedSets,
          orr \in RemovedSets :
          log = [NoLog EXCEPT !.this = COMMIT_STATE(tr, ta),
                              !.other = COMMIT_STATE(orr, oa)]

\* deduplicate( m_addedItems ) of the first state
DoDeduplicate ==
    /\ log.op = "none"
    /\ log' = [log EXCEPT !.op = "deduplicate",
                          !.set = deduplicate(log.this.addedItems)]
    /\ UNCHANGED <<items, made, node, ctx, call, ncalls>>

\* this.Compare( other )
DoCompare ==
    /\ log.op = "none"
    /\ log' = [log EXCEPT !.op = "Compare", !.ret = Compare(log.this, log.other)]
    /\ UNCHANGED <<items, made, node, ctx, call, ncalls>>

NextLog == DoDeduplicate \/ DoCompare

SpecLog == InitLog /\ [][NextLog]_vars

\* clones: the rank, the marker, the virtual flag, the board object and the
\* shape of the hole PH; the board as it is built, or after PH.Clone()
CloneParams ==
    {[Default EXCEPT !.phrank = rk, !.phmarker = mk, !.phvirtual = vi,
                     !.phboard = bo, !.phshape = sh]
        : rk \in {-1, 3}, mk \in {0, 2}, vi \in BOOLEAN, bo \in BOOLEAN,
          sh \in {"SH_CIRCLE", "SH_SEGMENT"}}

InitClone ==
    \E p \in CloneParams, cloned \in BOOLEAN :
        /\ items = Board(p)
        /\ made = IF cloned THEN NewId :> Clone(Board(p)["PH"]) ELSE <<>>
        /\ node = Node(p)
        /\ ctx = Context(p)
        /\ call = NoCall
        /\ ncalls = 0
        /\ log = NoLog

SpecClone == InitClone /\ [][Next]_vars

\* the call the record is about
Called == call.op = "Collide" /\ ~call.crashed

\* the obstacles the call added to the context
Added == ctx.obstacles \ call.pre

\* ------------------------------------------------------------------ claims
\* C1: an item never collides with itself: I.Collide( I, node, ctx ) returns
\* false and adds no obstacle, for every item I, a LINE that ends with a via
\* included
C1_SelfNonCollision ==
    (Called /\ call.this = call.other) => (~call.ret /\ ctx.obstacles = call.pre)

\* the shapes of a and b overlap at clearance c
ShapesOverlap(a, b, c) == ShapeCollide(Shape(items, a), Shape(items, b), c)

\* h is the hole of the pad or via p
OwnHole(p, h) == Hole(items, p) = h /\ ParentPadVia(items, h) = p

\* the call returned false and left the obstacle set as it was
NoCollision == ~call.ret /\ ctx.obstacles = call.pre

\* C2: a pad or via P and its hole H never collide, in either direction:
\* H.Collide( P ) and P.Collide( H ) return false and record no obstacle
C2_HoleParentExclusion ==
    (Called /\ (OwnHole(call.this, call.other) \/ OwnHole(call.other, call.this)))
        => NoCollision

\* P.Collide( its hole ) was asked for under the full rule scope, the hole
\* lying inside the pad, and H.Collide( its pad ) likewise
C2_Witness ==
    /\ Called
    /\ OwnHole(call.this, call.other)
    /\ ShapesOverlap(call.this, call.other, 0)
    /\ node.scope = "CQS_ALL_RULES"
    /\ call.this = "P"
    /\ items["P"].flashed = {1, 2}
    /\ NoCollision

\* the line a ends with a via whose layers overlap those of b
AttachedViaOverlaps(a, b) ==
    /\ items[a].kind = "LINE"
    /\ EndsWithVia(items, a)
    /\ Overlaps(items[Via(items, a)].layers, items[b].layers)

\* C3 as stated: items on layer ranges that do not overlap never collide,
\* whatever their attached vias
C3_LayerDisjointness_Original ==
    (Called /\ ~Overlaps(items[call.this].layers, items[call.other].layers))
        => NoCollision

\* C3: items on layer ranges that do not overlap never collide, provided the
\* via either of them ends with does not overlap the other item's layers either
C3_LayerDisjointness ==
    (/\ Called
     /\ ~Overlaps(items[call.this].layers, items[call.other].layers)
     /\ ~AttachedViaOverlaps(call.this, call.other)
     /\ ~AttachedViaOverlaps(call.other, call.this))
        => NoCollision

\* two items on different layers, one over the other, were tested
C3_Witness ==
    /\ Called
    /\ ~Overlaps(items[call.this].layers, items[call.other].layers)
    /\ ShapesOverlap(call.this, call.other, 0)
    /\ call.this = "S"
    /\ call.other = "P"
    /\ NoCollision

\* C4: with differentNetsOnly, two items of the same net >= 0, neither a free
\* pad, do not collide, also when their shapes overlap at clearance zero
C4_SameNetSuppression ==
    (/\ Called
     /\ ctx.differentNetsOnly
     /\ items[call.this].net = items[call.other].net
     /\ items[call.this].net >= 0
     /\ ~IsFreePad(items, call.this)
     /\ ~IsFreePad(items, call.other))
        => NoCollision

\* two different overlapping items of net 0 were tested with differentNetsOnly
C4_Witness ==
    /\ Called
    /\ ctx.differentNetsOnly
    /\ call.this # call.other
    /\ items[call.this].net = 0
    /\ items[call.other].net = 0
    /\ ~IsFreePad(items, call.this)
    /\ ~IsFreePad(items, call.other)
    /\ GetClearance(node, call.this, call.other) = 0
    /\ ShapesOverlap(call.this, call.other, 0)
    /\ items[call.this].kind = "LINE"
    /\ EndsWithVia(items, call.this)
    /\ NoCollision

\* the same call on a context that differs in differentNetsOnly = false only
WithoutNetOption ==
    Collide(items, node, [ctx EXCEPT !.differentNetsOnly = FALSE, !.obstacles = call.pre],
            call.pre, call.this, call.other)

\* C5: with differentNetsOnly and a free pad on either side the net
\* filter is skipped: the result is that of the call without differentNetsOnly
C5_FreePadException ==
    (/\ Called
     /\ ctx.differentNetsOnly
     /\ (IsFreePad(items, call.this) \/ IsFreePad(items, call.other)))
        => (call.ret = WithoutNetOption.ret /\ ctx.obstacles = WithoutNetOption.obs)

\* the zone of item z disallows vias and nothing else
NoViasOnly(z) ==
    LET k == Parent(items, z)
    IN  IsZone(k) /\ k.dnaVias /\ ~k.dnaTracks /\ ~k.dnaPads /\ ~k.dnaFootprints

\* x is a via made from a via of the board
BoardVia(x) == items[x].kind = "VIA" /\ Parent(items, x).type = "PCB_VIA_T"

\* x is a segment made from a track or an arc of the board
BoardTrack(x) ==
    items[x].kind = "SEGMENT" /\ Parent(items, x).type \in {"PCB_TRACE_T", "PCB_ARC_T"}

\* the call is between the keepout item z and the item x, in either direction
Between(z, x) ==
    \/ call.this = z /\ call.other = x
    \/ call.this = x /\ call.other = z

\* a and b are both flashed on each other's layer
BothFlashed(a, b) ==
    /\ IsFlashedOnLayer(items, a, Layer(items, b))
    /\ IsFlashedOnLayer(items, b, Layer(items, a))

\* a and b occupy the same space: on common layers, of nets the context does
\* not filter, flashed, and with shapes closer than the resolved clearance
\* less the epsilon
SameSpace(a, b) ==
    /\ Overlaps(items[a].layers, items[b].layers)
    /\ ~ctx.differentNetsOnly
    /\ ctx.overrideClearance < 0
    /\ BothFlashed(a, b)
    /\ GetClearance(node, a, b) >= 0
    /\ ShapesOverlap(a, b, GetClearance(node, a, b) - ClearanceEpsilon(node))

\* the call recorded the shape-vs-shape obstacle of its two items
ShapeObstacle ==
    \E o \in ctx.obstacles : o.head = call.other /\ o.item = call.this

\* C6 as stated: a keepout that disallows only vias suppresses the collision
\* with a via in the same space, and not the one with a segment
C6_KeepoutPrecision_Original ==
    \A z \in ItemIds, x \in ItemIds :
        (Called /\ NoViasOnly(z) /\ Between(z, x) /\ SameSpace(z, x))
            => /\ BoardVia(x) => NoCollision
               /\ BoardTrack(x) => call.ret

\* C6: a keepout that disallows only vias suppresses the collision with a
\* segment made from a track or arc, and not the one with a via in the same
\* space, which is reported with its obstacle
C6_KeepoutPrecision ==
    \A z \in ItemIds, x \in ItemIds :
        (Called /\ NoViasOnly(z) /\ Between(z, x))
            => /\ BoardTrack(x) => NoCollision
               /\ (BoardVia(x) /\ SameSpace(z, x)) => (call.ret /\ ShapeObstacle)

\* a via of the board was tested against a no-vias keepout it lies in
C6_Witness ==
    /\ Called
    /\ NoViasOnly(call.this)
    /\ BoardVia(call.other)
    /\ SameSpace(call.this, call.other)
    /\ call.ret
    /\ ShapeObstacle

\* the holes of a and b, if any
HolesOf(a, b) == {Hole(items, a), Hole(items, b)} \ {NULL}

\* a and b are two non-LINE items with circles of radius 5 on a common layer,
\* flashed, of nets the context does not filter, no keepout among them, their
\* holes inside them, and every clearance resolved for them is 0
CirclesOfFive(a, b) ==
    /\ a # b
    /\ {items[a].kind, items[b].kind} \subseteq {"SEGMENT", "VIA", "SOLID"}
    /\ Shape(items, a).r = 5
    /\ Shape(items, b).r = 5
    /\ Overlaps(items[a].layers, items[b].layers)
    /\ BothFlashed(a, b)
    /\ ~ctx.differentNetsOnly
    /\ ctx.overrideClearance < 0
    /\ ~IsZone(Parent(items, a))
    /\ ~IsZone(Parent(items, b))
    /\ GetClearance(node, a, b) = 0
    /\ \A h \in HolesOf(a, b) :
          /\ Shape(items, h).r < 5
          /\ Shape(items, h).pos = Shape(items, ParentPadVia(items, h)).pos
          /\ GetClearance(node, a, h) = 0
          /\ GetClearance(node, b, h) = 0
    /\ \A h \in HolesOf(a, b), g \in HolesOf(a, b) : GetClearance(node, h, g) = 0

\* the distance of the centres of the two items of the call
CallDist == Dist(Shape(items, call.this), Shape(items, call.other))

\* C7 as stated: with clearance 0 and epsilon e > 0 two circles of radius 5 do
\* not collide at distance 10 + e and do collide at distance exactly 10 - e
C7_ClearanceBoundary_Original ==
    (Called /\ CirclesOfFive(call.this, call.other) /\ ClearanceEpsilon(node) > 0)
        => /\ CallDist = 10 + ClearanceEpsilon(node) => NoCollision
           /\ CallDist = 10 - ClearanceEpsilon(node) => call.ret

\* C7: with clearance 0 and epsilon e > 0 two circles of radius 5 do not
\* collide at distance 10 + e, nor at distance exactly 10 - e (the test is
\* strict), and do collide at every distance below 10 - e
C7_ClearanceBoundary ==
    (Called /\ CirclesOfFive(call.this, call.other) /\ ClearanceEpsilon(node) > 0)
        => /\ CallDist = 10 + ClearanceEpsilon(node) => NoCollision
           /\ CallDist = 10 - ClearanceEpsilon(node) => NoCollision
           /\ CallDist < 10 - ClearanceEpsilon(node) => (call.ret /\ ShapeObstacle)

\* two circles of radius 5 were tested at distance exactly 10 - e, e = 2
C7_Witness ==
    /\ Called
    /\ CirclesOfFive(call.this, call.other)
    /\ ClearanceEpsilon(node) = 2
    /\ CallDist = 8
    /\ NoCollision

\* Width(x)/2 for a LINE, 0 for every other kind
HalfWidth(x) == IF items[x].kind = "LINE" THEN items[x].width \div 2 ELSE 0

\* the clearance of the shape test of a against b
UsedClearance(a, b) ==
    IF ctx.overrideClearance >= 0 THEN ctx.overrideClearance
    ELSE GetClearance(node, a, b)

\* clearance + halfWidth(this) + halfWidth(other) - clearanceEpsilon
AdditiveThreshold(a, b) ==
    UsedClearance(a, b) + HalfWidth(a) + HalfWidth(b) - ClearanceEpsilon(node)

\* C8: every shape-vs-shape test of collideSimple, fast or slow, is made at
\* clearance + halfWidth(this) + halfWidth(other) - clearanceEpsilon: the
\* shapes are found to overlap exactly when their distance is below the sum of
\* the radii and that threshold
C8_AdditiveThreshold ==
    Called =>
        \A k \in DOMAIN call.subs :
            LET t == call.subs[k]
                d == Dist(Shape(items, t.this), Shape(items, t.head))
                rr == Shape(items, t.this).r + Shape(items, t.head).r
            IN  t.tested =>
                    /\ t.thr = AdditiveThreshold(t.this, t.head)
                    /\ (t.exit # "clear") <=> (d < rr + AdditiveThreshold(t.this, t.head))

\* a line of odd width was tested on the slow path against a line of odd
\* width, and hit
C8_Witness ==
    /\ Called
    /\ \E k \in DOMAIN call.subs :
          LET t == call.subs[k]
          IN  /\ t.tested
              /\ t.slow
              /\ items[t.this].kind = "LINE"
              /\ items[t.head].kind = "LINE"
              /\ items[t.this].width % 2 = 1
              /\ items[t.head].width % 2 = 1
              /\ ClearanceEpsilon(node) > 0
              /\ t.exit = "shapeHit"

\* the obstacle set after this.collideSimple( head ) on the set obs
After(obs, this, head) == collideSimple(items, node, ctx, obs, this, head).obs

\* x is a LINE that ends with a via
ViaLine(x) == items[x].kind = "LINE" /\ EndsWithVia(items, x)

\* the obstacle set after every applicable sub-test of this.Collide( other )
\* has run on the set obs: this against other, the via of this against
\* other, the via of other against this
AllSubTests(obs, this, other) ==
    LET o1 == After(obs, this, other)
        o2 == IF ViaLine(this) THEN After(o1, Via(items, this), other) ELSE o1
    IN  IF ViaLine(other) THEN After(o2, Via(items, other), this) ELSE o2

\* C9: with a search context, one Collide call runs every applicable sub-test
\* and records the obstacles of all of them, also after a sub-test has hit
C9_ExhaustiveAccumulation ==
    (Called /\ ctx.present)
        => ctx.obstacles = AllSubTests(call.pre, call.this, call.other)

\* C10: with a search context a collideSimple sub-test returns true exactly
\* when it found a collision in one of its sub-checks, and so does Collide
C10_ResultReflectsFindings ==
    (Called /\ ctx.present)
        => /\ \A k \in DOMAIN call.subs :
                call.subs[k].ret <=> (call.subs[k].hits # {})
           /\ call.ret <=> (\E k \in DOMAIN call.subs : call.subs[k].hits # {})

\* some sub-check of the call collides: the call, evaluated as first-hit mode
\* evaluates it, returns true
SomeSubCheckCollides ==
    Collide(items, node, ctx, ctx.obstacles, call.this, call.other).ret

\* C11: first-hit mode: a Collide call with no search context never reads or
\* writes a context (it runs to its end whatever the null pointer holds),
\* records nothing, and returns true exactly when a sub-check collides
C11_FirstHitMode ==
    (call.op = "Collide" /\ ~ctx.present) =>
        /\ ~call.crashed
        /\ ctx.obstacles = {}
        /\ call.ret = SomeSubCheckCollides

\* the obstacle set the context would hold if the call of the record were
\* made once more, on the same items, node and context
Repeated ==
    Collide(items, node, ctx, ctx.obstacles, call.this, call.other).obs

\* no two obstacles of the set have the same head and the same item
OnePerPair(obs) ==
    \A x \in obs, y \in obs : (x.head = y.head /\ x.item = y.item) => x = y

\* C12: de-duplication: on a context that earlier calls have written to,
\* repeating a Collide call with the same this, other and node leaves the
\* obstacle set exactly as it was, and the set never holds two obstacles
\* with the same (head, item)
C12_Deduplication ==
    /\ OnePerPair(ctx.obstacles)
    /\ Called => Repeated = ctx.obstacles

\* a call found again a (head, item) pair that an earlier call had recorded
\* with another clearance, and the set kept one obstacle for the pair
C12_Witness ==
    /\ Called
    /\ \E s \in {call.subs[k] : k \in 1..Len(call.subs)} :
          \E h \in s.hits, x \in call.pre :
             h.head = x.head /\ h.item = x.item /\ h.clearance # x.clearance
    /\ Added # {}
    /\ Repeated = ctx.obstacles

\* the hole sub-checks of a.collideSimple( b ) are in scope
HoleScope(a, b) ==
    \/ GetCollisionQueryScope(node) = "CQS_ALL_RULES"
    \/ node.iface /\ ~IsFlashedOnLayer(items, a, Layer(items, b))
    \/ node.iface /\ ~IsFlashedOnLayer(items, b, Layer(items, a))

\* in the sub-test t of a (hole ha) against b (hole hb) the hole of a
\* overlaps b, the hole of b overlaps a, the holes overlap each other, each at
\* its own clearance, and the shape test of a against b hit
AllFourCollide(t) ==
    LET a == t.this
        b == t.head
        ha == Hole(items, a)
        hb == Hole(items, b)
        e == ClearanceEpsilon(node)
    IN  /\ ha # NULL
        /\ hb # NULL
        /\ HoleScope(a, b)
        /\ ShapesOverlap(ha, b, GetClearance(node, a, ha) + HalfWidth(b) - e)
        /\ ShapesOverlap(hb, a, GetClearance(node, a, hb) + HalfWidth(a) - e)
        /\ ShapesOverlap(ha, hb, GetClearance(node, ha, hb) - e)
        /\ t.exit = "shapeHit"

\* the (head, item) pairs of the obstacles of obs
Pairs(obs) == {<<o.head, o.item>> : o \in obs}

\* C13: when the hole of this against other, the hole of other against this,
\* hole against hole and shape against shape all collide in one collideSimple
\* call with a context, the context gains four obstacles, one per sub-check:
\* (other, hole of this), (hole of other, this), (hole of other, hole of this)
\* and (other, this); the four pairs differ, and the call adds one obstacle
\* for each of them that the set did not hold yet
C13_OnePerSubCheck ==
    (Called /\ ctx.present) =>
        \A k \in DOMAIN call.subs :
            LET t == call.subs[k]
                a == t.this
                b == t.head
                new == t.obs \ t.pre
                four == {<<b, Hole(items, a)>>, <<Hole(items, b), a>>,
                         <<Hole(items, b), Hole(items, a)>>, <<b, a>>}
            IN  AllFourCollide(t) =>
                    /\ Cardinality(four) = 4
                    /\ four \subseteq Pairs(t.obs)
                    /\ Pairs(new) = four \ Pairs(t.pre)
                    /\ Cardinality(new) = Cardinality(four \ Pairs(t.pre))
                    /\ new \subseteq ctx.obstacles

\* the via P, with a hole of radius 4, was tested against the via LV: all four
\* sub-checks hit and the call added four obstacles
C13_Witness ==
    /\ Called
    /\ ctx.present
    /\ call.this = "P"
    /\ call.other = "LV"
    /\ AllFourCollide(call.subs[1])
    /\ Cardinality(Added) = 4

\* C14: frame: a Collide call changes nothing but the obstacle set of the
\* context it was given: the items with their holes and shapes, the node with
\* its rule resolver and the options of the context stay as they were, every
\* obstacle that was in the set is still in it, and a call with no context
\* changes nothing at all
C14_Frame ==
    [][call'.op = "Collide" =>
          /\ items' = items
          /\ node' = node
          /\ ctx'.present = ctx.present
          /\ ctx'.differentNetsOnly = ctx.differentNetsOnly
          /\ ctx'.overrideClearance = ctx.overrideClearance
          /\ ctx.obstacles \subseteq ctx'.obstacles
          /\ ~ctx.present => ctx' = ctx]_vars

\* a call on a context that already held obstacles added one more
C14_Witness ==
    /\ Called
    /\ ctx.present
    /\ call.pre # {}
    /\ Added # {}
    /\ call.pre \subseteq ctx.obstacles

\* the rule resolver returns a negative clearance for every pair
AllNegative == \A q \in DOMAIN node.clearance : node.clearance[q] < 0

\* C15: when the rule resolver returns a negative clearance for every pair
\* (item/item, item/hole, hole/hole) and the context sets no override
\* clearance, Collide returns false and records no obstacle
C15_NegativeClearance ==
    (Called /\ AllNegative /\ ctx.overrideClearance < 0) => NoCollision

\* the node with a rule resolver that differs from the node's only in the
\* values GetClearance returns: c for every pair
WithClearance(c) == [node EXCEPT !.clearance = [q \in DOMAIN node.clearance |-> c]]

\* the call of the record, made on the node nd instead
CallOn(nd) == Collide(items, nd, ctx, call.pre, call.this, call.other)

\* C16: when the context sets overrideClearance >= 0, the result of Collide
\* and the obstacles it records, their clearances included, are the same for
\* any two rule resolvers that differ only in the values GetClearance returns
C16_OverrideClearance ==
    (Called /\ ctx.present /\ ctx.overrideClearance >= 0) =>
        \A c \in {0, 3} :
            /\ CallOn(WithClearance(c)).ret = call.ret
            /\ CallOn(WithClearance(c)).obs = ctx.obstacles

\* C17: the obstacle collideSimple records for a shape-vs-shape hit, on the
\* fast and on the slow path, has head = the other item, item = this and
\* clearance = the clearance of the test (the override when it is >= 0,
\* otherwise the resolver's value for (this, other)), not the threshold
\* widened by the line widths
C17_ShapeHitRecord ==
    (Called /\ ctx.present) =>
        \A k \in DOMAIN call.subs :
            LET t == call.subs[k]
            IN  (t.exit = "shapeHit" /\ <<t.head, t.this>> \notin Pairs(t.pre)) =>
                    /\ [head |-> t.head, item |-> t.this,
                        clearance |-> UsedClearance(t.this, t.head)] \in t.obs
                    /\ t.obs \subseteq ctx.obstacles

\* the line L, 4 wide, hit the segment S under an override clearance of 2,
\* where the resolver's value is 3 and the threshold of the test is 4
C17_Witness ==
    /\ Called
    /\ ctx.present
    /\ call.this = "L"
    /\ call.other = "S"
    /\ ctx.overrideClearance = 2
    /\ GetClearance(node, "L", "S") = 3
    /\ call.subs[1].exit = "shapeHit"
    /\ call.subs[1].thr = 4
    /\ [head |-> "S", item |-> "L", clearance |-> 2] \in ctx.obstacles

\* the holes that exist, and the hole with the id h
Holes == HoleIds(items, made)

TheHole(h) == HoleAt(items, made, h)

\* C18 as claimed: every HOLE that exists, however it was made, has a pad or
\* via
C18_HoleParent_Original ==
    \A h \in Holes : TheHole(h).parentPadVia # NULL

\* no operation changes the pad or via of a hole that exists
ParentKept ==
    \A h \in Holes : HoleAt(items', made', h).parentPadVia = TheHole(h).parentPadVia

\* C18: every hole of a pad or via of the board has that pad or via, a Clone
\* has the pad or via of the hole it was cloned from, and no SetCenter,
\* SetRadius, Move or Collide changes the pad or via of a hole; a hole made by
\* MakeCircularHole has none
C18_HoleParent ==
    /\ [](\A h \in Holes \cap ItemIds : TheHole(h).parentPadVia # NULL)
    /\ [][/\ ParentKept
          /\ call'.op = "Clone" =>
                made'[call'.other].parentPadVia = TheHole(call'.this).parentPadVia
          /\ call'.op = "MakeCircularHole" =>
                made'[call'.other].parentPadVia = NULL]_vars

\* MakeCircularHole has made a hole, which has no pad or via
C18_Witness ==
    /\ call.op = "MakeCircularHole"
    /\ call.other \in Holes
    /\ TheHole(call.other).parentPadVia = NULL

\* C19: HOLE::Pos() answers the origin for every hole that exists, circular
\* or not, in every reachable state, whatever SetCenter, SetRadius and Move
\* have done to its shape
C19_PosIsOrigin ==
    /\ \A h \in Holes : Pos(TheHole(h)) = 0
    /\ call.op = "Pos" => call.val = 0

\* SetCenter has put the centre of a hole at 5, and Pos() of it is the origin
C19_Witness ==
    /\ call.op = "SetCenter"
    /\ ~call.crashed
    /\ TheHole(call.this).shape.pos = 5
    /\ Pos(TheHole(call.this)) = 0

\* the shape of the hole the step operates on is not a circle
NotACircle == TheHole(call'.this).shape.type # "SH_CIRCLE"

\* every hole but the one the step operates on stays as it was
OthersKept ==
    \A h \in Holes \ {call'.this} : HoleAt(items', made', h) = TheHole(h)

\* the hole the step operates on, after the step
Operated == HoleAt(items', made', call'.this)

\* C20: Radius(), SetCenter() and SetRadius() on a hole whose shape is not a
\* circle end in an assertion failure and leave every hole as it was; on a
\* circular hole Radius() answers the radius, SetCenter changes the centre only
\* and SetRadius the radius only; Move( delta ) succeeds on a hole of any
\* shape and displaces it by delta
C20_KindSpecificAccessors ==
    [][/\ (call'.op \in {"Radius", "SetCenter", "SetRadius"} /\ NotACircle) =>
             (call'.crashed /\ items' = items /\ made' = made)
       /\ (call'.op \in {"Radius", "SetCenter", "SetRadius"} /\ ~NotACircle) =>
             (~call'.crashed /\ OthersKept)
       /\ (call'.op = "Radius" /\ ~NotACircle) =>
             (call'.val = TheHole(call'.this).shape.r /\ Operated = TheHole(call'.this))
       /\ (call'.op = "SetCenter" /\ ~NotACircle) =>
             Operated = [TheHole(call'.this) EXCEPT !.shape.pos = call'.arg]
       /\ (call'.op = "SetRadius" /\ ~NotACircle) =>
             Operated = [TheHole(call'.this) EXCEPT !.shape.r = call'.arg]
       /\ call'.op = "Move" =>
             /\ ~call'.crashed
             /\ OthersKept
             /\ Operated = [TheHole(call'.this) EXCEPT
                               !.shape.pos = TheHole(call'.this).shape.pos + call'.arg]]_vars

\* SetRadius was called on an oval hole: the assertion failed and the radius
\* of the hole is what it was
C20_Witness ==
    /\ call.op = "SetRadius"
    /\ call.crashed
    /\ TheHole(call.this).shape.type = "SH_SEGMENT"
    /\ TheHole(call.this).shape.r # call.arg

\* the zone z disallows the board object x: a track or arc under the tracks
\* flag, a via under the vias flag, a pad under the pads flag, and under the
\* footprints flag a pad of a footprint that is not the zone's own
Disallows(z, x) ==
    \/ z.dnaTracks /\ x.type \in {"PCB_ARC_T", "PCB_TRACE_T"}
    \/ z.dnaVias /\ x.type = "PCB_VIA_T"
    \/ z.dnaPads /\ x.type = "PCB_PAD_T"
    \/ z.dnaFootprints /\ x.type = "PCB_PAD_T" /\ (z.fp = NULL \/ z.fp # x.fp)

\* a is made from a zone, b from a board object the zone does not disallow
Allowed(a, b) ==
    /\ IsZone(Parent(items, a))
    /\ Parent(items, b).type # "NONE"
    /\ ~Disallows(Parent(items, a), Parent(items, b))

\* a is made from a zone, b from no board object
ZoneAndParentless(a, b) ==
    IsZone(Parent(items, a)) /\ Parent(items, b).type = "NONE"

\* the sub-test t ended in one of the filters that come before the flashing,
\* hole and shape tests, with nothing resolved, tested or recorded
FilteredOut(t) ==
    /\ ~t.ret
    /\ t.obs = t.pre
    /\ t.hits = {}
    /\ t.queries = {}
    /\ ~t.tested
    /\ t.exit \in {"self", "sameNet", "freePad", "layers", "keepout"}

\* C21: when one item of a collideSimple test is made from a zone and the
\* other from a board object whose kind the zone does not disallow, the test
\* returns false before any flashing, hole or shape test and records nothing;
\* when the other item is made from no board object, the keepout filter is
\* not applied
C21_KeepoutFilter ==
    Called =>
        \A k \in DOMAIN call.subs :
            LET t == call.subs[k]
            IN  /\ (Allowed(t.this, t.head) \/ Allowed(t.head, t.this))
                    => FilteredOut(t)
                /\ (ZoneAndParentless(t.this, t.head) \/ ZoneAndParentless(t.head, t.this))
                    => t.exit # "keepout"

\* the zone item Z, whose zone does not disallow tracks, was tested against
\* the segment S, which lies in it: the keepout filter ended the test
C21_Witness ==
    /\ Called
    /\ call.this = "Z"
    /\ call.other = "S"
    /\ Parent(items, "S").type = "PCB_TRACE_T"
    /\ ~Parent(items, "Z").dnaTracks
    /\ ShapesOverlap("Z", "S", 0)
    /\ call.subs[1].exit = "keepout"
    /\ NoCollision

\* x is made from a pad of the footprint that the zone of z belongs to
OwnPad(z, x) ==
    /\ IsZone(Parent(items, z))
    /\ Parent(items, z).fp # NULL
    /\ Parent(items, x).type = "PCB_PAD_T"
    /\ Parent(items, x).fp = Parent(items, z).fp

\* C22: the keepout predicate never reports a pad of the zone's own footprint
\* as disallowed, whatever the pads and footprints flags of the zone, so a
\* test of a keepout against a pad of its own footprint returns false and
\* records no obstacle
C22_OwnFootprintPads ==
    \A z \in ItemIds, x \in ItemIds :
        (Called /\ Between(z, x) /\ OwnPad(z, x))
            => /\ ~checkKeepout(Parent(items, z), Parent(items, x))
               /\ NoCollision

\* the slow path of a.collideSimple is taken for the board edge, for a net-tie
Castellated(a) ==
    Parent(items, a).type # "NONE" /\ Parent(items, a).layer = "Edge_Cuts"

NetTied(a) == IsInNetTie(items, a)

\* the point where the shapes of the sub-test t touch
Contact(t) == ContactPoint(Shape(items, t.head), Shape(items, t.this))

\* the outcome of the sub-test t on the fast path: with this item off the
\* board edge and out of any net-tie
FastPath(t) ==
    collideSimple([items EXCEPT ![t.this].inNetTie = FALSE,
                                ![t.this].parent.layer = "F_Cu"],
                  node, ctx, t.pre, t.this, t.head)

\* the sub-test t recorded no shape-vs-shape obstacle and reported no hit
ShapeSuppressed(t) ==
    /\ ~t.ret
    /\ <<t.head, t.this>> \notin Pairs(t.obs \ t.pre)
    /\ t.exit \in {"edgeExclusion", "netTieExclusion"}

\* t took the slow path and its shapes overlap within the threshold
SlowOverlap(t) ==
    /\ t.tested
    /\ Castellated(t.this) \/ NetTied(t.this)
    /\ ShapesOverlap(t.head, t.this, AdditiveThreshold(t.this, t.head))

\* C23 as claimed: on the slow path an overlap is suppressed when the contact
\* point lies in an edge exclusion or in a net-tie exclusion, whichever of the
\* two conditions led to the slow path, and is otherwise treated as on the
\* fast path
C23_SlowPathSuppression_Original ==
    Called =>
        \A k \in DOMAIN call.subs :
            LET t == call.subs[k]
            IN  SlowOverlap(t) =>
                    IF Contact(t) \in node.edgeExcl \cup node.tieExcl
                    THEN ShapeSuppressed(t)
                    ELSE t.ret = FastPath(t).ret /\ t.obs = FastPath(t).obs

\* C23: on the slow path an overlap is suppressed when this item's board
\* object lies on Edge_Cuts and the contact point lies in an edge exclusion,
\* or this item is in a net-tie and the contact point lies in a net-tie
\* exclusion; an exclusion of the kind whose condition does not hold is not
\* consulted; otherwise the outcome is that of the fast path
C23_SlowPathSuppression ==
    Called =>
        \A k \in DOMAIN call.subs :
            LET t == call.subs[k]
            IN  SlowOverlap(t) =>
                    IF \/ Castellated(t.this) /\ Contact(t) \in node.edgeExcl
                       \/ NetTied(t.this) /\ Contact(t) \in node.tieExcl
                    THEN ShapeSuppressed(t)
                    ELSE t.ret = FastPath(t).ret /\ t.obs = FastPath(t).obs

\* S, made from an object of the board edge and in no net-tie, overlaps P at
\* a point that is an edge exclusion: the collision is suppressed
C23_Witness ==
    /\ Called
    /\ call.this = "S"
    /\ call.other = "P"
    /\ Castellated("S")
    /\ ~NetTied("S")
    /\ SlowOverlap(call.subs[1])
    /\ Contact(call.subs[1]) \in node.edgeExcl
    /\ ShapeSuppressed(call.subs[1])

\* the items with no hole attached to any of them
WithoutHoles == [i \in DOMAIN items |-> [items[i] EXCEPT !.hole = NULL]]

\* the sub-test t ran past the filters with the scope of the node not
\* CQS_ALL_RULES and both items flashed on each other's layer
HolesGated(t) ==
    /\ t.exit \notin {"self", "sameNet", "freePad", "layers", "keepout"}
    /\ node.scope # "CQS_ALL_RULES"
    /\ ~node.iface \/ IsFlashedOnLayer(items, t.this, Layer(items, t.head))
    /\ ~node.iface \/ IsFlashedOnLayer(items, t.head, Layer(items, t.this))

\* C24: when the scope of the node is not CQS_ALL_RULES and both items are
\* flashed on each other's layer (always so without a router interface),
\* collideSimple queries no hole clearance, records no obstacle with the hole
\* of either item as head or item, and, the own-hole exits apart, returns and
\* records what it does for the same items without holes
C24_HoleGating ==
    Called =>
        \A k \in DOMAIN call.subs :
            LET t == call.subs[k]
                r == collideSimple(WithoutHoles, node, ctx, t.pre, t.this, t.head)
            IN  HolesGated(t) =>
                    /\ t.queries \subseteq {<<t.this, t.head>>}
                    /\ \A o \in t.obs \ t.pre :
                          /\ o.head \notin {Hole(items, t.head), Hole(items, t.this)}
                          /\ o.item \notin {Hole(items, t.head), Hole(items, t.this)}
                    /\ t.exit # "ownHole" => t.ret = r.ret /\ t.obs = r.obs

\* S against the via P whose hole reaches S, outside CQS_ALL_RULES and both
\* flashed: the shape test alone decides, and it records (P, S)
C24_Witness ==
    /\ Called
    /\ call.this = "S"
    /\ call.other = "P"
    /\ HolesGated(call.subs[1])
    /\ node.iface
    /\ Hole(items, "P") = "PH"
    /\ ShapesOverlap("PH", "S", 0)
    /\ call.subs[1].exit = "shapeHit"
    /\ Pairs(call.subs[1].obs) = {<<"P", "S">>}

\* the sub-test t ran past the filters, did not end at a hole hit of the
\* first-hit mode, and one side is not flashed on the layer of the other,
\* which is a single-layer item
NonFlashedPair(t) ==
    LET a == items[t.this]
        b == items[t.head]
    IN  /\ t.exit \notin {"self", "sameNet", "freePad", "layers", "keepout"}
        /\ node.iface
        /\ \/ b.layers.start \notin a.flashed /\ b.layers.start = b.layers.end
           \/ a.layers.start \notin b.flashed /\ a.layers.start = a.layers.end

\* C25: when this item is not flashed on the layer of the single-layer other
\* item, or the other item is not flashed on the layer of this single-layer
\* item, collideSimple resolves no clearance for the pair of items, runs no
\* shape-vs-shape test and records no shape-vs-shape obstacle: every obstacle
\* it adds comes from a hole sub-check
C25_NonFlashedExit ==
    Called =>
        \A k \in DOMAIN call.subs :
            LET t == call.subs[k]
            IN  NonFlashedPair(t) =>
                    /\ <<t.this, t.head>> \notin t.queries
                    /\ ~t.tested
                    /\ <<t.head, t.this>> \notin Pairs(t.obs \ t.pre)
                    /\ \A o \in t.obs \ t.pre :
                          \/ o.head = Hole(items, t.head)
                          \/ o.item = Hole(items, t.this)

\* the pad P is not flashed on the layer of the segment S, which overlaps
\* both P and its hole: the call records the hole's obstacle (S, PH) only
C25_Witness ==
    /\ Called
    /\ call.this = "P"
    /\ call.other = "S"
    /\ NonFlashedPair(call.subs[1])
    /\ ShapesOverlap("P", "S", 0)
    /\ call.subs[1].exit = "thisNotFlashed"
    /\ Pairs(call.subs[1].obs) = {<<"S", "PH">>}

\* in the sub-test t sub-check (b), the hole of the other item against the
\* shape of this item, has run
HeadHoleChecked(t) ==
    LET holeH == Hole(items, t.head)
    IN  /\ t.exit \notin {"self", "sameNet", "freePad", "layers", "keepout"}
        /\ ctx.present
        /\ HoleScope(t.this, t.head)
        /\ holeH # NULL
        /\ ParentPadVia(items, holeH) # t.this
        /\ holeH # t.this

\* the threshold of sub-check (a) of p.collideSimple( q ): the hole of p
\* against the shape of q
HoleThreshold(p, q) ==
    GetClearance(node, p, Hole(items, p)) + lineWidth(items, q)
        - ClearanceEpsilon(node)

\* C26: sub-check (b) of q.collideSimple( p ) resolves the clearance of
\* (p, hole of p) and tests the hole of p against the shape of q at the
\* threshold that sub-check (a) of p.collideSimple( q ) applies to them
C26_HoleChecksMirror ==
    Called =>
        \A k \in DOMAIN call.subs :
            LET t == call.subs[k]
                holeH == Hole(items, t.head)
            IN  HeadHoleChecked(t) =>
                    /\ <<t.head, holeH>> \in t.queries
                    /\ <<holeH, t.this>> \in Pairs(t.hits)
                          <=> ShapesOverlap(holeH, t.this,
                                            HoleThreshold(t.head, t.this))

\* the items a and b of the log compare equal
EqualItems(a, b) == comparePnsItems(LogItem(a), LogItem(b))

\* C27: deduplicate returns a set in which no two members compare equal and
\* every item of the input compares equal to exactly one member; the set is
\* non-empty when the input is
C27_Deduplicate ==
    log.op = "deduplicate" =>
        LET input == {log.this.addedItems[k] : k \in DOMAIN log.this.addedItems}
        IN  /\ \A a \in log.set, b \in log.set : EqualItems(a, b) => a = b
            /\ \A i \in input :
                  Cardinality({m \in log.set : EqualItems(i, m)}) = 1
            /\ input # {} => log.set # {}

\* the added items of the commit state c
AddedItems(c) == {c.addedItems[k] : k \in DOMAIN c.addedItems}

\* C28: Compare returns true only if the sets of removed ids are equal and
\* every added item of the other state compares equal to an added item of
\* this state, and false when the other state holds an added segment or via
\* that no added item of this state matches
C28_Compare ==
    log.op = "Compare" =>
        /\ log.ret =>
              /\ log.this.removedIds = log.other.removedIds
              /\ \A o \in AddedItems(log.other) :
                    \E t \in AddedItems(log.this) : EqualItems(t, o)
        /\ (\E o \in AddedItems(log.other) :
                /\ LogItem(o).kind \in {"SEGMENT_T", "VIA_T"}
                /\ \A t \in AddedItems(log.this) : ~EqualItems(t, o))
              => ~log.ret

\* the side of the item a in a Collide call: a, the via attached to it when
\* it is a LINE that ends with one, and their holes
Side(a) ==
    LET via == IF items[a].kind = "LINE" /\ EndsWithVia(items, a)
               THEN {Via(items, a)} ELSE {}
    IN  ({a} \cup via \cup {Hole(items, x) : x \in {a} \cup via}) \ {NULL}

\* C29: every obstacle recorded during this.Collide( other ) has its head on
\* the side of other (other, its hole, the via attached to it) and its item
\* on the side of this (this, its hole, the via attached to it); none has
\* this or its hole as head, or other, its hole or its via as item
C29_HeadItemRoles ==
    Called =>
        \A o \in ctx.obstacles \ call.pre :
            /\ o.head \in Side(call.other)
            /\ o.item \in Side(call.this)
            /\ o.head \notin {call.this, Hole(items, call.this)}
            /\ o.item \notin Side(call.other)

\* the members that Clone copies
Copied(h) ==
    [parentPadVia |-> h.parentPadVia, net |-> h.net, layers |-> h.layers,
     rank |-> h.rank, marker |-> h.marker, parent |-> h.parent,
     isVirtual |-> h.isVirtual]

\* the shape s without the address of the object
ShapeValue(s) == [type |-> s.type, pos |-> s.pos, r |-> s.r]

\* C30: Clone returns a new hole with the parent pad or via, the net, the
\* layers, the rank, the marker, the board object and the virtual flag of the
\* original and an equal shape that is another object; Move, SetCenter and
\* SetRadius on a hole leave the shape of every other hole as it was, so a
\* clone and its original never change each other
C30_CloneIndependent ==
    [][/\ call'.op = "Clone" =>
            /\ Copied(made'[NewId]) = Copied(TheHole(call'.this))
            /\ ShapeValue(made'[NewId].shape) = ShapeValue(TheHole(call'.this).shape)
            /\ made'[NewId].shape.at # TheHole(call'.this).shape.at
            /\ made'[NewId].kind = "HOLE"
       /\ call'.op \in {"Move", "SetCenter", "SetRadius"} =>
            \A g \in Holes \ {call'.this} :
                HoleAt(items', made', g).shape = TheHole(g).shape]_vars

\* the clone of the hole PH, with the rank, the marker and the flag of PH,
\* has been moved and PH is where the board has it
C30_Witness ==
    /\ call.op = "Move"
    /\ call.this = NewId
    /\ NewId \in DOMAIN made
    /\ Copied(made[NewId]) = Copied(items["PH"])
    /\ made[NewId].rank = 3
    /\ made[NewId].marker = 2
    /\ made[NewId].isVirtual
    /\ made[NewId].shape.pos # items["PH"].shape.pos
    /\ items["PH"].shape.pos = Default.ppos

====
